---- MODULE Spec2Model ----
(***************************************************************************)
(* A model of the streaming chat-completion proxy (bigduu/openai-rs).      *)
(*                                                                         *)
(* Four parts of the repository  are modelled, each started by its own     *)
(* initial condition so that a behaviour exercises one of them:            *)
(*   - the request pipeline of llm-proxy-core / llm-proxy-openai:          *)
(*     Pipeline::execute (parse, processor chain, OpenAIClient::execute),  *)
(*     the background reader task (handle_stream / handle_non_stream),     *)
(*     the bounded channel and the HTTP edge that streams the channel;     *)
(*   - the HTTP edge of llm-proxy-server with its pipeline registry        *)
(*     (handle_request, get_pipeline_for_route), for concurrent requests;  *)
(*   - the SSE encoder of the core crate (DefaultSseProvider);             *)
(*   - the JSON form of ChatCompletionRequest: parse and re-serialization. *)
(***************************************************************************)
EXTENDS Integers, Sequences, FiniteSets, TLC

(***************************************************************************)
(* Bounds of the model                                                     *)
(***************************************************************************)
\* largest number of places at which the upstream byte stream is cut into
\* transport chunks
MaxCuts == 1
\* largest number of processors in a pipeline's chain
MaxChain == 2
\* largest number of transport errors the upstream body raises
MaxTransportErrors == 1
\* number of concurrent HTTP requests at the edge
NumRequests == 2
\* largest number of messages fed to the SSE encoder
MaxMsgs == 3
\* largest number of messages in a chat-completion request
MaxMessages == 1
\* largest number of requests sent through one pipeline's token provider
MaxTokenRequests == 2
\* largest number of events a processor pushes onto the output queue
MaxPushed == 1
\* number of lines of the longest upstream body and of messages of the
\* longest encoder input: one more than a channel holds
MaxBacklog == 101

(***************************************************************************)
(* Program constants                                                       *)
(***************************************************************************)
\* mpsc::channel(100) of OpenAIClient::execute
ChannelCapacity == 100
\* mpsc::channel(100) of DefaultSseProvider::to_sse_channel
SseChannelCapacity == 100

(***************************************************************************)
(* Bytes and text.  A byte string is a sequence of one-character strings;  *)
(* LF, CR and SP are the line feed, carriage return and space.             *)
(***************************************************************************)
LF == "LF"
CR == "CR"
SP == " "
Whitespace == {SP, CR, LF}

\* the text "data: " tested by process_line
DataPrefix == <<"d", "a", "t", "a", ":", SP>>
\* the text "[DONE]" tested by process_line
DoneText == <<"[", "D", "O", "N", "E", "]">>

RECURSIVE Concat(_)
Concat(ss) == IF ss = <<>> THEN <<>> ELSE Head(ss) \o Concat(Tail(ss))

\* str::starts_with
StartsWith(s, p) == Len(s) >= Len(p) /\ SubSeq(s, 1, Len(p)) = p

RECURSIVE TrimStart(_)
TrimStart(s) ==
    IF s # <<>> /\ Head(s) \in Whitespace THEN TrimStart(Tail(s)) ELSE s

RECURSIVE TrimEnd(_)
TrimEnd(s) ==
    IF s # <<>> /\ s[Len(s)] \in Whitespace
    THEN TrimEnd(SubSeq(s, 1, Len(s) - 1))
    ELSE s

\* str::trim
Trim(s) == TrimEnd(TrimStart(s))

\* index of the first LF of s, 0 when there is none
RECURSIVE FirstLF(_, _)
FirstLF(s, i) ==
    IF i > Len(s) THEN 0
    ELSE IF s[i] = LF THEN i
    ELSE FirstLF(s, i + 1)

\* str::lines: the text is split after each LF; a piece loses its LF and then
\* a CR before it; text after the last LF is a last line of its own
RECURSIVE Lines(_)
Lines(s) ==
    IF s = <<>> THEN <<>>
    ELSE LET i == FirstLF(s, 1)
         IN IF i = 0 THEN <<s>>
            ELSE LET l == SubSeq(s, 1, i - 1)
                     stripped == IF l # <<>> /\ l[Len(l)] = CR
                                 THEN SubSeq(l, 1, Len(l) - 1)
                                 ELSE l
                 IN <<stripped>> \o Lines(SubSeq(s, i + 1, Len(s)))

(***************************************************************************)
(* The upstream response bodies the model draws from                       *)
(***************************************************************************)
PayloadX == <<"{", "x", "}">>
PayloadY == <<"{", "y", "}">>
\* the payloads serde_json::from_str::<StreamChunk> accepts
ValidPayloads == {PayloadX, PayloadY}
\* a payload it rejects
PayloadBad == <<"{", "x">>

DataLine(p) == DataPrefix \o p \o <<LF>>

\* two chunks, then [DONE]
BodyHappy == DataLine(PayloadX) \o DataLine(PayloadY) \o DataLine(DoneText)
\* a malformed line, a chunk, then [DONE]
BodyMalformed == DataLine(PayloadBad) \o DataLine(PayloadY) \o DataLine(DoneText)
\* an upstream that keeps sending after [DONE]
BodyAfterDone == DataLine(DoneText) \o DataLine(PayloadY)
\* fields other than data, a comment, a blank line and CR LF line ends
BodyOtherFields ==
    <<":", "c", LF>> \o <<"i", "d", ":", SP, "1", LF>>
        \o DataPrefix \o PayloadX \o <<CR, LF>> \o <<LF>>
\* a body that ends without [DONE]
BodyNoDone == DataLine(PayloadX)

Bodies == {BodyHappy, BodyMalformed, BodyAfterDone, BodyOtherFields, BodyNoDone}

\* the transport chunks of body s cut at the positions of cuts
RECURSIVE CutAt(_, _, _)
CutAt(s, cuts, from) ==
    LET later == {c \in cuts : c >= from}
    IN IF later = {} THEN <<SubSeq(s, from, Len(s))>>
       ELSE LET c == CHOOSE x \in later : \A y \in later : x <= y
            IN <<SubSeq(s, from, c)>> \o CutAt(s, cuts, c + 1)

\* the sets of at most k cut positions among 1..n
RECURSIVE CutPositions(_, _)
CutPositions(n, k) ==
    IF k = 0 THEN {{}}
    ELSE LET fewer == CutPositions(n, k - 1)
         IN fewer \cup {cs \cup {c} : cs \in fewer, c \in 1 .. n}

CutSets(s) == CutPositions(Len(s) - 1, MaxCuts)

\* a long body delivered one line per transport chunk
LongUpstream == [i \in 1 .. MaxBacklog |-> DataLine(PayloadX)]

\* a data line without a space after the colon, an event and a retry line,
\* and a data line with the space
BodyNoSpace ==
    <<"d", "a", "t", "a", ":">> \o PayloadX \o <<LF>>
        \o <<"e", "v", "e", "n", "t", ":", SP, "m", LF>>
        \o <<"r", "e", "t", "r", "y", ":", SP, "1", LF>>
        \o DataLine(PayloadY)

\* every way the transport may deliver one of the bodies
Upstreams ==
    UNION {{CutAt(s, cs, 1) : cs \in CutSets(s)} : s \in Bodies}
        \cup {LongUpstream, <<BodyNoSpace>>}

\* the bodies delivered whole
WholeBodies == {<<s>> : s \in Bodies}

\* the deliveries explored behind a chain c: the reader does not see the
\* chain, so the transport's chunking is explored behind the empty chain and
\* a chain with processors is followed by each body delivered whole
UpstreamsFor(c) == IF c = <<>> THEN Upstreams ELSE WholeBodies

(***************************************************************************)
(* State                                                                   *)
(***************************************************************************)
VARIABLES
    \* --- Pipeline::execute of the request under study ---
    pc,             \* position in Pipeline::execute / OpenAIClient::execute
    body,           \* the request body: "stream", "nonstream" or "malformed"
    chain,          \* the pipeline's processors, in declaration order
    chainIdx,       \* index of the next processor of ProcessorChain::execute
    request,        \* the typed request as processed so far
    invoked,        \* the processors invoked so far, in order of invocation
    result,         \* what Pipeline::execute returned
    posts,          \* number of POSTs sent upstream
    status,         \* outcome of the POST
    posted,         \* the requests serialized into the POSTs, in order
    http,           \* the HTTP status handle_request answered, 0 while none
    httpHeaders,    \* the Content-Type and Cache-Control of that response
    \* --- the upstream response body and the reader task ---
    upstream,       \* transport chunks not yet read
    fullBody,       \* all bytes of the response body, as the upstream sent them
    readerPc,       \* position of the spawned reader task
    curChunk,       \* the transport chunk being processed (original_chunk)
    curLines,       \* its lines not yet processed
    transportErrors,\* transport errors raised so far
    \* --- the channel mpsc::channel(100) and the HTTP edge ---
    chan,           \* messages sent and not yet received
    rxDropped,      \* the receiver has been dropped
    edgePc,         \* position of the streaming response
    delivered,      \* the messages written to the downstream client
    \* --- history of the reader, for stating properties ---
    sentLog,        \* every message the reader sent successfully
    decoded,        \* the data lines decoded so far, each "chunk", "bad" or "done"
    failedSends,    \* number of sends that failed because the receiver was gone
    readsAfterFail, \* transport reads made after a failed send
    readsAfterError \* calls of stream.next() made after a transport error

pipelineVars ==
    <<pc, body, chain, chainIdx, request, invoked, result, posts, status,
      posted, http, httpHeaders>>
readerVars == <<upstream, fullBody, readerPc, curChunk, curLines, transportErrors>>
channelVars == <<chan, rxDropped, edgePc, delivered>>
historyVars ==
    <<sentLog, decoded, failedSends, readsAfterFail, readsAfterError>>
proxyVars == <<pipelineVars, readerVars, channelVars, historyVars>>

VARIABLES
    rpc,            \* position of each request in handle_request
    rpath,          \* the path of each request
    rroute,         \* the index of the route find_route gave it, 0 for none
    rbuilt,         \* the pipeline the request created on a miss, 0 for none
    rpipe,          \* the pipeline get_pipeline_for_route returned, 0 for none
    rhttp,          \* the HTTP status answered, 0 while there is none
    rbody,          \* the body of an error response, <<>> otherwise
    registry,       \* PipelineRegistry.pipelines: pairs <<path_prefix, pipeline>>
    nextPipeline,   \* the identity of the next Arc<Pipeline> to be created
    lockReaders,    \* the requests holding the RwLock for reading
    lockWriter,     \* the request holding the RwLock for writing, 0 for none
    pipelines,      \* the Pipeline values created so far, by identity
    rtrace          \* the trace id execute logged for each request, 0 for none

registryVars ==
    <<rpc, rpath, rroute, rbuilt, rpipe, rhttp, rbody, registry, nextPipeline,
      lockReaders, lockWriter, pipelines, rtrace>>

VARIABLES
    sseSource,      \* the messages the forwarder has yet to send
    sseIn,          \* the encoder's input channel (rx of to_sse_channel)
    sseInClosed,    \* the forwarder has dropped its sender
    sseInDropped,   \* the encoder has dropped its receiver
    ssePc,          \* position of the encoder task
    sseCur,         \* the frame the encoder is about to send
    sseOut,         \* the encoder's output channel mpsc::channel(100)
    sseOutDropped,  \* the receiver of the output channel has been dropped
    sseDelivered,   \* the frames the consumer of the output channel received
    sseFailedSends  \* sends of the encoder that failed, the receiver being gone

sseVars ==
    <<sseSource, sseIn, sseInClosed, sseInDropped, ssePc, sseCur, sseOut,
      sseOutDropped, sseDelivered, sseFailedSends>>

VARIABLES
    codecPc,        \* position of the parse and re-serialization of a body
    doc,            \* the JSON document of the request body
    parsed,         \* the ChatCompletionRequest parsed from it
    reserialized,   \* the JSON document serialized from the parsed request
    routeAllow,     \* allow_streaming of the route the pipeline was built for
    mode            \* the reader task spawned for the parsed request

codecVars == <<codecPc, doc, parsed, reserialized, routeAllow, mode>>

VARIABLES
    tokPc,          \* position of the request using the token provider
    tokEnv,         \* the value of the environment variable token_env names
    tokProvider,    \* the pipeline's TokenProvider
    tokReqs,        \* number of requests started
    tokCur,         \* what get_token returned to the current request
    tokSent,        \* the bearer token of each POST, with the variable's value
    tokResults      \* the error of each request that failed at get_token

tokenVars == <<tokPc, tokEnv, tokProvider, tokReqs, tokCur, tokSent, tokResults>>

VARIABLES
    convPc,         \* position in ConversationStream::handle
    convProcs,      \* what each processor of the stream does with an event
    convIdx,        \* index of the processor the loop is at
    convQueue,      \* the VecDeque `queue`
    convSeen        \* for each call of process, the processor and the event's id

convVars == <<convPc, convProcs, convIdx, convQueue, convSeen>>

VARIABLES
    mcPc,           \* position in the message-level ProcessorChain::execute
    mcProcs,        \* what each processor of the chain does with the messages
    mcIdx,          \* index of the processor the loop is at
    mcRequest,      \* the request execute was given
    mcMessages,     \* the local `messages`
    mcOut           \* what execute returned

mchainVars == <<mcPc, mcProcs, mcIdx, mcRequest, mcMessages, mcOut>>

\* what an action of one part leaves alone
proxyFrame ==
    UNCHANGED <<registryVars, sseVars, codecVars, tokenVars, convVars, mchainVars>>
registryFrame ==
    UNCHANGED <<proxyVars, sseVars, codecVars, tokenVars, convVars, mchainVars>>
sseFrame ==
    UNCHANGED <<proxyVars, registryVars, codecVars, tokenVars, convVars, mchainVars>>
codecFrame ==
    UNCHANGED <<proxyVars, registryVars, sseVars, tokenVars, convVars, mchainVars>>
tokenFrame ==
    UNCHANGED <<proxyVars, registryVars, sseVars, codecVars, convVars, mchainVars>>
convFrame ==
    UNCHANGED <<proxyVars, registryVars, sseVars, codecVars, tokenVars, mchainVars>>
mchainFrame ==
    UNCHANGED <<proxyVars, registryVars, sseVars, codecVars, tokenVars, convVars>>

NoHeaders == [content_type |-> "none", cache_control |-> "none"]

NoRequest == [stream |-> FALSE, marks |-> <<>>]

\* the chains Pipeline::new may be given: processors 1..n in this order
Chains == {[i \in 1 .. n |-> i] : n \in 0 .. MaxChain}

ProxyIdle ==
    /\ pc = "off" /\ body = "none" /\ chain = <<>> /\ chainIdx = 1
    /\ request = NoRequest /\ invoked = <<>> /\ result = "none"
    /\ posts = 0 /\ status = "none" /\ posted = <<>> /\ http = 0
    /\ httpHeaders = NoHeaders
    /\ upstream = <<>> /\ fullBody = <<>> /\ readerPc = "idle"
    /\ curChunk = <<>> /\ curLines = <<>> /\ transportErrors = 0
    /\ chan = <<>> /\ rxDropped = FALSE /\ edgePc = "idle" /\ delivered = <<>>
    /\ sentLog = <<>> /\ decoded = <<>> /\ failedSends = 0 /\ readsAfterFail = 0
    /\ readsAfterError = 0

\* a pipeline built by Pipeline::new and a request body handed to execute
InitProxy ==
    /\ pc = "parse"
    /\ body \in {"stream", "nonstream", "malformed"}
    /\ chain \in Chains
    /\ chainIdx = 1
    /\ request = NoRequest /\ invoked = <<>> /\ result = "none"
    /\ posts = 0 /\ status = "none" /\ posted = <<>> /\ http = 0
    /\ httpHeaders = NoHeaders
    /\ upstream = <<>> /\ fullBody = <<>> /\ readerPc = "idle"
    /\ curChunk = <<>> /\ curLines = <<>> /\ transportErrors = 0
    /\ chan = <<>> /\ rxDropped = FALSE /\ edgePc = "idle" /\ delivered = <<>>
    /\ sentLog = <<>> /\ decoded = <<>> /\ failedSends = 0 /\ readsAfterFail = 0
    /\ readsAfterError = 0

(***************************************************************************)
(* Pipeline::execute: parse, processor chain, LLM client                   *)
(***************************************************************************)
SkipChain(idx) == "get_client"

\* where Pipeline::execute goes once the chain has run the processors before idx
AfterChain(idx) == IF idx > Len(chain) THEN "get_client" ELSE "chain"

\* OpenAIRequestParser::parse followed by the `?` of Pipeline::execute
ParseRequest ==
    /\ proxyFrame
    /\ pc = "parse"
    /\ IF body = "malformed"
       THEN /\ result' = "ParseError"
            /\ pc' = "returned"
            /\ UNCHANGED request
       ELSE /\ request' = [stream |-> (body = "stream"), marks |-> <<>>]
            /\ pc' = AfterChain(1)
            /\ UNCHANGED result
    /\ UNCHANGED <<body, chain, chainIdx, invoked, posts, status, posted, http,
                   httpHeaders>>
    /\ UNCHANGED <<readerVars, channelVars, historyVars>>

ContinueAfterError(ok, idx) ==
    [pc |-> AfterChain(idx + 1), result |-> "none", idx |-> idx + 1]

SkipNext(ok, idx) ==
    IF ok
    THEN [pc |-> AfterChain(idx + 2), result |-> "none", idx |-> idx + 2]
    ELSE [pc |-> "returned", result |-> "ProcessError", idx |-> idx]

\* one turn of the loop of ProcessorChain::execute: `processor.process(..)?`
ProcessorChainStep(ok, idx) ==
    IF ok
    THEN [pc |-> AfterChain(idx + 1), result |-> "none", idx |-> idx + 1]
    ELSE [pc |-> "returned", result |-> "ProcessError", idx |-> idx]

\* Processor::process answering Ok: the processor's output for its input; the
\* processors under study leave their own mark on the request they are given
Process(p, req) == [req EXCEPT !.marks = Append(@, p)]

\* the processor at chainIdx is invoked and answers Ok or Err
InvokeProcessor ==
    /\ proxyFrame
    /\ pc = "chain"
    /\ chainIdx <= Len(chain)
    /\ \E ok \in BOOLEAN :
        LET step == ProcessorChainStep(ok, chainIdx)
        IN /\ invoked' = Append(invoked, chain[chainIdx])
           /\ request' = IF ok THEN Process(chain[chainIdx], request) ELSE request
           /\ pc' = step.pc
           /\ chainIdx' = step.idx
           /\ result' = IF step.result = "none" THEN result ELSE step.result
    /\ UNCHANGED <<body, chain, posts, status, posted, http, httpHeaders>>
    /\ UNCHANGED <<readerVars, channelVars, historyVars>>

ContinueAnyway(ok, next) == next

\* the `.map_err(..)?` after a provider call: an Err returns from execute
AfterProvider(ok, next) == IF ok THEN next ELSE "returned"

\* one of the three provider calls of OpenAIClient::execute
ProviderCall(at, next) ==
    /\ proxyFrame
    /\ pc = at
    /\ \E ok \in BOOLEAN :
        /\ pc' = AfterProvider(ok, next)
        /\ result' = IF ok THEN result ELSE "LLMError"
    /\ UNCHANGED <<body, chain, chainIdx, request, invoked, posts, status,
                   posted, http, httpHeaders>>
    /\ UNCHANGED <<readerVars, channelVars, historyVars>>

GetClient == ProviderCall("get_client", "get_token")
GetToken == ProviderCall("get_token", "get_url")
GetUrl == ProviderCall("get_url", "send_request")

Statuses == {"2xx", "non2xx_json", "non2xx_other", "send_failed"}

AcceptAnyStatus(st) == IF st = "send_failed" THEN "LLMError" ELSE "Ok"

\* OpenAIClient::send_request: Ok(response) for a 2xx answer only
SendRequestResult(st) == IF st = "2xx" THEN "Ok" ELSE "LLMError"

AlwaysStream(stream) == "next"

\* the task OpenAIClient::execute spawns: handle_stream when request.stream,
\* handle_non_stream otherwise
ReaderEntry(stream) == IF stream THEN "next" ELSE "nonstream"

RetryOnFailure(st) == IF st = "2xx" THEN "returned" ELSE "send_request"

\* where OpenAIClient::execute goes after send_request: `send_request(..)?`
\* returns the error, and Ok goes on to the spawn and the return
AfterSend(st) == "returned"

ForceStream(req) == [req EXCEPT !.stream = TRUE]

\* the request send_request serializes into the POST: `.json(&request)`
RequestToPost(req) == req

\* send_request, then on Ok the spawn of the reader and the return of the
\* receiver through Pipeline::execute to handle_request
SendRequest ==
    /\ proxyFrame
    /\ pc = "send_request"
    /\ \E st \in Statuses :
        /\ status' = st
        /\ posts' = posts + 1
        /\ posted' = Append(posted, RequestToPost(request))
        /\ result' = SendRequestResult(st)
        /\ IF SendRequestResult(st) = "Ok"
           THEN /\ \E u \in UpstreamsFor(chain) :
                    upstream' = u /\ fullBody' = Concat(u)
                /\ readerPc' = ReaderEntry(request.stream)
           ELSE UNCHANGED <<upstream, fullBody, readerPc>>
        /\ pc' = AfterSend(st)
    /\ UNCHANGED <<body, chain, chainIdx, request, invoked, http, httpHeaders>>
    /\ UNCHANGED <<curChunk, curLines, transportErrors>>
    /\ UNCHANGED <<channelVars, historyVars>>

AlwaysOk(res) == 200

\* handle_request's match on pipeline.execute(body): Ok is answered with
\* HttpResponse::Ok() streaming the receiver, every Err with
\* HttpResponse::InternalServerError()
HttpStatusFor(res) == IF res = "Ok" THEN 200 ELSE 500

\* the headers of handle_request's answer to pipeline.execute(body): Ok is
\* built with `.content_type("application/json")` and no Cache-Control, an
\* error with `.body(String)`, which the framework types as plain text
ResponseHeaders(res) ==
    IF res = "Ok"
    THEN [content_type |-> "application/json", cache_control |-> "none"]
    ELSE [content_type |-> "text/plain", cache_control |-> "none"]

\* handle_request answers once Pipeline::execute has returned; on Ok the
\* framework starts polling the stream
HandleResponse ==
    /\ proxyFrame
    /\ pc = "returned"
    /\ http = 0
    /\ http' = HttpStatusFor(result)
    /\ httpHeaders' = ResponseHeaders(result)
    /\ edgePc' = IF HttpStatusFor(result) = 200 THEN "streaming" ELSE edgePc
    /\ UNCHANGED <<pc, body, chain, chainIdx, request, invoked, result, posts,
                   status, posted>>
    /\ UNCHANGED <<chan, rxDropped, delivered>>
    /\ UNCHANGED <<readerVars, historyVars>>

(***************************************************************************)
(* The reader task: OpenAIClient::handle_stream / handle_non_stream        *)
(***************************************************************************)
\* what process_line makes of a line: "skip" (no "data: " prefix), "done"
\* ([DONE]), "chunk" (the payload parses as a StreamChunk) or "bad"
ClassifyLine(line) ==
    IF ~StartsWith(line, DataPrefix) THEN "skip"
    ELSE LET data == Trim(SubSeq(line, 6, Len(line)))
         IN IF data = DoneText THEN "done"
            ELSE IF data \in ValidPayloads THEN "chunk"
            ELSE "bad"

ChunkMsg(bytes, tag) ==
    [kind |-> "chunk", bytes |-> bytes, cause |-> "none", tag |-> tag]
ErrorMsg(cause, tag) ==
    [kind |-> "error", bytes |-> <<>>, cause |-> cause, tag |-> tag]

\* parse_and_send_chunk: the message sent for a data line that is not [DONE];
\* a line that parses sends the transport chunk it came in (original_chunk)
LineMessage(cls, chunk, tag) ==
    IF cls = "chunk" THEN ChunkMsg(chunk, tag) ELSE ErrorMsg("parse", tag)

PushFront(q, m) == <<m>> \o q

DropMessage(q, m) == q

\* mpsc::Sender::send on a channel whose receiver is alive
ChannelPush(q, m) == Append(q, m)

\* tx.send(..).await.is_err() of send_chunk / send_error: the message is
\* queued, or the send fails because the receiver is gone; either way the
\* caller gets Ok(())
TrySend(m) ==
    IF rxDropped
    THEN /\ failedSends' = failedSends + 1
         /\ UNCHANGED <<chan, sentLog>>
    ELSE /\ chan' = ChannelPush(chan, m)
         /\ sentLog' = Append(sentLog, m)
         /\ UNCHANGED failedSends

AlwaysCanSend == TRUE

\* a send can complete: the channel has room, or the receiver is gone
CanSend == rxDropped \/ Len(chan) < ChannelCapacity

\* the behaviours of the transport and of the client that are drawn: an error
\* or a disconnect at any point of a short body, a long body read to its end
ShortBody == Len(fullBody) < MaxBacklog * Len(DataLine(PayloadX))

\* stream.next().await yields a transport chunk, or None at the end of the body
ReaderNext ==
    /\ proxyFrame
    /\ readerPc = "next"
    /\ IF upstream = <<>>
       THEN /\ readerPc' = "done"
            /\ UNCHANGED <<upstream, curChunk, curLines, readsAfterFail>>
       ELSE /\ curChunk' = Head(upstream)
            /\ curLines' = Lines(Head(upstream))
            /\ upstream' = Tail(upstream)
            /\ readerPc' = IF Lines(Head(upstream)) = <<>> THEN "next" ELSE "lines"
            /\ readsAfterFail' = readsAfterFail + (IF failedSends > 0 THEN 1 ELSE 0)
    /\ readsAfterError' = readsAfterError + (IF transportErrors > 0 THEN 1 ELSE 0)
    /\ UNCHANGED <<fullBody, transportErrors>>
    /\ UNCHANGED <<sentLog, decoded, failedSends>>
    /\ UNCHANGED <<pipelineVars, channelVars>>

\* stream.next().await yields Err: send_error, and the loop goes on; what the
\* body yields after an error is the transport's choice
ReaderTransportError ==
    /\ proxyFrame
    /\ readerPc = "next"
    /\ transportErrors < MaxTransportErrors
    /\ ShortBody
    /\ CanSend
    /\ transportErrors' = transportErrors + 1
    /\ TrySend(ErrorMsg("transport", 0))
    /\ \E rest \in {upstream, <<>>} : upstream' = rest
    /\ readsAfterFail' = readsAfterFail + (IF failedSends > 0 THEN 1 ELSE 0)
    /\ readsAfterError' = readsAfterError + (IF transportErrors > 0 THEN 1 ELSE 0)
    /\ UNCHANGED <<fullBody, readerPc, curChunk, curLines, decoded>>
    /\ UNCHANGED <<pipelineVars, rxDropped, edgePc, delivered>>

\* process_line on the next line of the chunk
ReaderLine ==
    /\ proxyFrame
    /\ readerPc = "lines"
    /\ curLines # <<>>
    /\ LET cls == ClassifyLine(Head(curLines))
           tag == Len(decoded) + 1
       IN /\ decoded' = IF cls = "skip" THEN decoded ELSE Append(decoded, cls)
          /\ IF cls \in {"chunk", "bad"}
             THEN CanSend /\ TrySend(LineMessage(cls, curChunk, tag))
             ELSE UNCHANGED <<chan, sentLog, failedSends>>
    /\ curLines' = Tail(curLines)
    /\ readerPc' = IF Tail(curLines) = <<>> THEN "next" ELSE "lines"
    /\ UNCHANGED <<upstream, fullBody, curChunk, transportErrors>>
    /\ UNCHANGED <<readsAfterFail, readsAfterError>>
    /\ UNCHANGED <<pipelineVars, rxDropped, edgePc, delivered>>

\* handle_non_stream: response.bytes().await, then one send of the whole body;
\* a failed read returns Err with nothing sent
ReaderNonStream ==
    /\ proxyFrame
    /\ readerPc = "nonstream"
    /\ \E ok \in BOOLEAN :
        IF ok
        THEN CanSend /\ TrySend(ChunkMsg(fullBody, 0))
        ELSE UNCHANGED <<chan, sentLog, failedSends>>
    /\ upstream' = <<>>
    /\ readerPc' = "done"
    /\ UNCHANGED <<fullBody, curChunk, curLines, transportErrors>>
    /\ UNCHANGED <<decoded, readsAfterFail, readsAfterError>>
    /\ UNCHANGED <<pipelineVars, rxDropped, edgePc, delivered>>

(***************************************************************************)
(* The HTTP edge: HttpResponse::Ok().streaming(ReceiverStream::new(rx))    *)
(***************************************************************************)
\* the framework polls the stream: an Ok item is written to the client; an
\* Err item ends the response with an error and the stream is dropped
EdgeRecv ==
    /\ proxyFrame
    /\ edgePc = "streaming"
    /\ chan # <<>>
    /\ IF Head(chan).kind = "chunk"
       THEN /\ delivered' = Append(delivered, Head(chan))
            /\ chan' = Tail(chan)
            /\ UNCHANGED <<rxDropped, edgePc>>
       ELSE /\ edgePc' = "aborted"
            /\ rxDropped' = TRUE
            /\ chan' = <<>>
            /\ UNCHANGED delivered
    /\ UNCHANGED <<pipelineVars, readerVars, historyVars>>

ClosedAtSpawn == TRUE

\* the channel is closed: its only sender was moved into the spawned task and
\* is dropped when the task returns
ChannelClosed == readerPc = "done"

\* the stream yields None: every sender is gone and the channel is empty
EdgeEnd ==
    /\ proxyFrame
    /\ edgePc = "streaming"
    /\ chan = <<>>
    /\ ChannelClosed
    /\ edgePc' = "ended"
    /\ UNCHANGED <<chan, rxDropped, delivered>>
    /\ UNCHANGED <<pipelineVars, readerVars, historyVars>>

\* the client goes away: the framework drops the response stream
ClientDisconnect ==
    /\ proxyFrame
    /\ edgePc = "streaming"
    /\ ShortBody
    /\ edgePc' = "disconnected"
    /\ rxDropped' = TRUE
    /\ chan' = <<>>
    /\ UNCHANGED delivered
    /\ UNCHANGED <<pipelineVars, readerVars, historyVars>>

(***************************************************************************)
(* The HTTP edge of llm-proxy-server and its pipeline registry             *)
(***************************************************************************)
Requests == 1 .. NumRequests

\* the [[route]] tables of the configuration under study, in declaration order
Routes ==
    << [path_prefix |-> <<"a", "b">>, target_llm |-> "gpt"],
       [path_prefix |-> <<"a">>, target_llm |-> "gpt2"],
       [path_prefix |-> <<"d">>, target_llm |-> "claude"],
       [path_prefix |-> <<"e">>, target_llm |-> "nollm"] >>

\* its [llm.<id>] tables: the provider of each backend
LlmProvider == [gpt |-> "openai", gpt2 |-> "openai", claude |-> "anthropic"]

\* the request paths the model draws from
Paths == {<<"a", "b", "x">>, <<"a", "c">>, <<"d">>, <<"e">>, <<"z">>}

\* Iterator::find over the routes from index i on: the index of the first
\* route whose path_prefix starts the path, 0 (None) when the routes run out
RECURSIVE FindFrom(_, _)
FindFrom(path, i) ==
    IF i > Len(Routes) THEN 0
    ELSE IF StartsWith(path, Routes[i].path_prefix) THEN i
    ELSE FindFrom(path, i + 1)

FindLast(path) ==
    LET matching == {i \in 1 .. Len(Routes) : StartsWith(path, Routes[i].path_prefix)}
    IN IF matching = {} THEN 0
       ELSE CHOOSE i \in matching : \A j \in matching : i >= j

FindOrFirst(path) == IF FindFrom(path, 1) = 0 THEN 1 ELSE FindFrom(path, 1)

\* Config::find_route
FindRoute(path) == FindFrom(path, 1)

\* the bodies of handle_request's error responses: the text of the format
\* string, followed by the path for 404
NoRouteBody(path) == <<"No route found for path: ">> \o path
PipelineErrorBody == <<"Pipeline error: ">>
InvalidBodyBody == <<"Invalid request body: ">>

\* Pipeline::new: the three components and a trace id, Uuid::new_v4(), which
\* is a value no other pipeline has
PipelineNew(parser, processor_chain, llm_client, fresh) ==
    [parser |-> parser, processor_chain |-> processor_chain,
     llm_client |-> llm_client, trace_id |-> fresh]

\* create_openai_pipeline: the pipeline create_chat_pipeline builds with no
\* processors
CreateOpenaiPipeline(fresh) ==
    PipelineNew("OpenAIRequestParser", <<>>, "OpenAIClient", fresh)

NewTraceId(pipeline) == [pipeline EXCEPT !.trace_id = 0]

\* the pipeline after Pipeline::execute(&self, ..): execute reads its fields
\* and assigns none
AfterExecute(pipeline) == pipeline

\* PipelineRegistry::get
RegistryGet(reg, key) ==
    LET found == {e \in reg : e[1] = key}
    IN IF found = {} THEN 0 ELSE (CHOOSE e \in found : TRUE)[2]

InsertKeepingOld(reg, key, pipeline) == reg \cup {<<key, pipeline>>}

\* PipelineRegistry::insert (HashMap::insert: the entry of the key is replaced)
RegistryInsert(reg, key, pipeline) ==
    {e \in reg : e[1] # key} \cup {<<key, pipeline>>}

AlwaysBuild(route) == TRUE

\* whether get_pipeline_for_route can build a pipeline for the route
CanBuild(route) ==
    /\ route.target_llm \in DOMAIN LlmProvider
    /\ LlmProvider[route.target_llm] = "openai"

RegistryOff ==
    /\ rpc = [r \in Requests |-> "off"]
    /\ rpath = [r \in Requests |-> <<>>]
    /\ rroute = [r \in Requests |-> 0]
    /\ rbuilt = [r \in Requests |-> 0]
    /\ rpipe = [r \in Requests |-> 0]
    /\ rhttp = [r \in Requests |-> 0]
    /\ rbody = [r \in Requests |-> <<>>]
    /\ registry = {}
    /\ nextPipeline = 1
    /\ lockReaders = {}
    /\ lockWriter = 0
    /\ pipelines = <<>>
    /\ rtrace = [r \in Requests |-> 0]

\* run_server: an empty registry, and requests yet to arrive
InitRegistry ==
    /\ rpc = [r \in Requests |-> "idle"]
    /\ rpath = [r \in Requests |-> <<>>]
    /\ rroute = [r \in Requests |-> 0]
    /\ rbuilt = [r \in Requests |-> 0]
    /\ rpipe = [r \in Requests |-> 0]
    /\ rhttp = [r \in Requests |-> 0]
    /\ rbody = [r \in Requests |-> <<>>]
    /\ registry = {}
    /\ nextPipeline = 1
    /\ lockReaders = {}
    /\ lockWriter = 0
    /\ pipelines = <<>>
    /\ rtrace = [r \in Requests |-> 0]

\* handle_request up to its first await: find_route, 404 when no route matches
Arrive(r) ==
    /\ rpc[r] = "idle"
    /\ \E p \in Paths :
        /\ rpath' = [rpath EXCEPT ![r] = p]
        /\ rroute' = [rroute EXCEPT ![r] = FindRoute(p)]
        /\ IF FindRoute(p) = 0
           THEN /\ rhttp' = [rhttp EXCEPT ![r] = 404]
                /\ rbody' = [rbody EXCEPT ![r] = NoRouteBody(p)]
                /\ rpc' = [rpc EXCEPT ![r] = "responded"]
           ELSE /\ rpc' = [rpc EXCEPT ![r] = "read_lock"]
                /\ UNCHANGED <<rhttp, rbody>>
    /\ UNCHANGED <<rbuilt, rpipe, registry, nextPipeline, lockReaders, lockWriter>>
    /\ UNCHANGED <<pipelines, rtrace>>
    /\ registryFrame

KeepRead(readers, r) == readers

\* the read guard is a temporary of the `let value = ..` statement and is
\* dropped at its end
ReleaseRead(readers, r) == readers \ {r}

\* get_pipeline_for_route: state.pipelines.read().await
AcquireRead(r) ==
    /\ rpc[r] = "read_lock"
    /\ lockWriter = 0
    /\ lockReaders' = lockReaders \cup {r}
    /\ rpc' = [rpc EXCEPT ![r] = "read_get"]
    /\ UNCHANGED <<rpath, rroute, rbuilt, rpipe, rhttp, rbody, registry, nextPipeline, lockWriter>>
    /\ UNCHANGED <<pipelines, rtrace>>
    /\ registryFrame

\* .get(&route.path_prefix), the read guard is dropped; on a hit the pipeline
\* is returned, on a miss a pipeline is created (create_openai_pipeline) or
\* the error "No pipeline implementation available" is returned (HTTP 500)
LookUp(r) ==
    /\ rpc[r] = "read_get"
    /\ lockReaders' = ReleaseRead(lockReaders, r)
    /\ LET route == Routes[rroute[r]]
           value == RegistryGet(registry, route.path_prefix)
       IN IF value # 0
          THEN /\ rpipe' = [rpipe EXCEPT ![r] = value]
               /\ rpc' = [rpc EXCEPT ![r] = "read_body"]
               /\ UNCHANGED <<rbuilt, nextPipeline, rhttp, rbody, pipelines>>
          ELSE IF CanBuild(route)
          THEN /\ rbuilt' = [rbuilt EXCEPT ![r] = nextPipeline]
               /\ pipelines' = Append(pipelines, CreateOpenaiPipeline(nextPipeline))
               /\ nextPipeline' = nextPipeline + 1
               /\ rpc' = [rpc EXCEPT ![r] = "write_lock"]
               /\ UNCHANGED <<rpipe, rhttp, rbody>>
          ELSE /\ rhttp' = [rhttp EXCEPT ![r] = 500]
               /\ rbody' = [rbody EXCEPT ![r] = PipelineErrorBody]
               /\ rpc' = [rpc EXCEPT ![r] = "responded"]
               /\ UNCHANGED <<rbuilt, nextPipeline, rpipe, pipelines>>
    /\ UNCHANGED <<rpath, rroute, registry, lockWriter, rtrace>>
    /\ registryFrame

\* state.pipelines.write().await
AcquireWrite(r) ==
    /\ rpc[r] = "write_lock"
    /\ lockWriter = 0
    /\ lockReaders = {}
    /\ lockWriter' = r
    /\ rpc' = [rpc EXCEPT ![r] = "insert"]
    /\ UNCHANGED <<rpath, rroute, rbuilt, rpipe, rhttp, rbody, registry, nextPipeline, lockReaders>>
    /\ UNCHANGED <<pipelines, rtrace>>
    /\ registryFrame

\* .insert(route.path_prefix.clone(), pipeline.clone()), the write guard is
\* dropped, and the pipeline just created is returned
Store(r) ==
    /\ rpc[r] = "insert"
    /\ registry' = RegistryInsert(registry, Routes[rroute[r]].path_prefix, rbuilt[r])
    /\ lockWriter' = 0
    /\ rpipe' = [rpipe EXCEPT ![r] = rbuilt[r]]
    /\ rpc' = [rpc EXCEPT ![r] = "read_body"]
    /\ UNCHANGED <<rpath, rroute, rbuilt, rhttp, rbody, nextPipeline, lockReaders>>
    /\ UNCHANGED <<pipelines, rtrace>>
    /\ registryFrame

\* read_request_body: the body, or HTTP 400 on a payload error
ReadBody(r) ==
    /\ rpc[r] = "read_body"
    /\ \E ok \in BOOLEAN :
        IF ok
        THEN rpc' = [rpc EXCEPT ![r] = "execute"] /\ UNCHANGED <<rhttp, rbody>>
        ELSE /\ rpc' = [rpc EXCEPT ![r] = "responded"]
             /\ rhttp' = [rhttp EXCEPT ![r] = 400]
             /\ rbody' = [rbody EXCEPT ![r] = InvalidBodyBody]
    /\ UNCHANGED <<rpath, rroute, rbuilt, rpipe, registry, nextPipeline, lockReaders, lockWriter>>
    /\ UNCHANGED <<pipelines, rtrace>>
    /\ registryFrame

\* pipeline.execute(body), which logs the pipeline's trace id, and the
\* response: 200 on Ok, 500 on Err
Respond(r) ==
    /\ rpc[r] = "execute"
    /\ rtrace' = [rtrace EXCEPT ![r] = pipelines[rpipe[r]].trace_id]
    /\ pipelines' = [pipelines EXCEPT ![rpipe[r]] = AfterExecute(@)]
    /\ \E res \in {"Ok", "ParseError", "ProcessError", "LLMError"} :
        /\ rhttp' = [rhttp EXCEPT ![r] = HttpStatusFor(res)]
        /\ rbody' = [rbody EXCEPT ![r] =
                        IF res = "Ok" THEN <<>> ELSE PipelineErrorBody]
    /\ rpc' = [rpc EXCEPT ![r] = "responded"]
    /\ UNCHANGED <<rpath, rroute, rbuilt, rpipe, registry, nextPipeline, lockReaders, lockWriter>>
    /\ registryFrame

(***************************************************************************)
(* The SSE encoder of the core crate: DefaultSseProvider::to_sse_channel   *)
(***************************************************************************)
QUOTE == "\""
BACKSLASH == "\\"

\* the messages of the encoder's input: StreamMessage::Chunk(StreamEvent::Chunk),
\* StreamMessage::Chunk(StreamEvent::Done), StreamMessage::Done, StreamMessage::Error
MessageShapes ==
    {[kind |-> "chunk", text |-> PayloadX], [kind |-> "chunk", text |-> PayloadY],
     [kind |-> "chunk_done", text |-> <<>>], [kind |-> "done", text |-> <<>>],
     [kind |-> "error", text |-> <<"e">>],
     [kind |-> "error", text |-> <<"e", LF, LF, QUOTE>>]}

RECURSIVE SeqsUpTo(_, _)
SeqsUpTo(S, n) ==
    IF n = 0 THEN {<<>>}
    ELSE LET shorter == SeqsUpTo(S, n - 1)
         IN shorter \cup {Append(q, x) : q \in shorter, x \in S}

\* a long input of chunks
LongSource == [i \in 1 .. MaxBacklog |-> [kind |-> "chunk", text |-> PayloadX, tag |-> i]]

\* the input sequences of the encoder, each message tagged with its position
SseSources ==
    {[i \in 1 .. Len(q) |-> [kind |-> q[i].kind, text |-> q[i].text, tag |-> i]] :
        q \in SeqsUpTo(MessageShapes, MaxMsgs)} \cup {LongSource}

RawText(t) == t

\* the text of a JSON string literal, as serde_json writes it
RECURSIVE JsonEscape(_)
JsonEscape(t) ==
    IF t = <<>> THEN <<>>
    ELSE (CASE Head(t) = LF -> <<BACKSLASH, "n">>
            [] Head(t) = CR -> <<BACKSLASH, "r">>
            [] Head(t) = QUOTE -> <<BACKSLASH, QUOTE>>
            [] Head(t) = BACKSLASH -> <<BACKSLASH, BACKSLASH>>
            [] OTHER -> <<Head(t)>>) \o JsonEscape(Tail(t))

\* json!({"error": e.to_string()}) printed
ErrorJson(t) ==
    <<"{", QUOTE, "e", "r", "r", "o", "r", QUOTE, ":", QUOTE>>
        \o JsonEscape(t) \o <<QUOTE, "}">>

EventErrorLine == <<"e", "v", "e", "n", "t", ":", SP, "e", "r", "r", "o", "r", LF>>

\* the match of to_sse_channel: the bytes of the frame of a message
SseFrame(m) ==
    CASE m.kind = "chunk" -> DataPrefix \o m.text \o <<LF, LF>>
      [] m.kind = "chunk_done" -> DataPrefix \o DoneText \o <<LF, LF>>
      [] m.kind = "done" -> DataPrefix \o DoneText \o <<LF, LF>>
      [] m.kind = "error" -> EventErrorLine \o DataPrefix \o ErrorJson(m.text) \o <<LF, LF>>

\* a frame on the output channel: its bytes, and for stating properties the
\* position and the message it was made from
NoMessage == [kind |-> "none", text |-> <<>>, tag |-> 0]
NoFrame == [bytes |-> <<>>, tag |-> 0, of |-> NoMessage]

SseOff ==
    /\ sseSource = <<>> /\ sseIn = <<>> /\ sseInClosed = FALSE
    /\ sseInDropped = FALSE /\ ssePc = "off" /\ sseCur = NoFrame
    /\ sseOut = <<>> /\ sseOutDropped = FALSE /\ sseDelivered = <<>>
    /\ sseFailedSends = 0

\* to_sse_channel has spawned the encoder; the forwarder holds the sender
InitSse ==
    /\ sseSource \in SseSources
    /\ sseIn = <<>> /\ sseInClosed = FALSE
    /\ sseInDropped = FALSE /\ ssePc = "recv" /\ sseCur = NoFrame
    /\ sseOut = <<>> /\ sseOutDropped = FALSE /\ sseDelivered = <<>>
    /\ sseFailedSends = 0

\* the forwarder sends its next message on the input channel; when the
\* encoder's receiver is gone the send fails and the forwarder stops
ForwarderSend ==
    /\ sseFrame
    /\ ssePc # "off"
    /\ ~sseInClosed
    /\ sseSource # <<>>
    /\ IF sseInDropped
       THEN /\ sseInClosed' = TRUE
            /\ UNCHANGED <<sseSource, sseIn>>
       ELSE /\ Len(sseIn) < ChannelCapacity
            /\ sseIn' = Append(sseIn, Head(sseSource))
            /\ sseSource' = Tail(sseSource)
            /\ UNCHANGED sseInClosed
    /\ UNCHANGED <<sseInDropped, ssePc, sseCur, sseOut, sseOutDropped, sseDelivered,
                   sseFailedSends>>

\* the forwarder returns and its sender is dropped
ForwarderClose ==
    /\ sseFrame
    /\ ssePc # "off"
    /\ ~sseInClosed
    /\ sseSource = <<>>
    /\ sseInClosed' = TRUE
    /\ UNCHANGED <<sseSource, sseIn, sseInDropped, ssePc, sseCur, sseOut,
                   sseOutDropped, sseDelivered, sseFailedSends>>

\* rx.recv().await: a message is turned into its frame, or None ends the loop
\* and the task, which drops the output sender and the input receiver
SseRecv ==
    /\ sseFrame
    /\ ssePc = "recv"
    /\ IF sseIn # <<>>
       THEN /\ sseCur' = [bytes |-> SseFrame(Head(sseIn)),
                           tag |-> Head(sseIn).tag, of |-> Head(sseIn)]
            /\ sseIn' = Tail(sseIn)
            /\ ssePc' = "send"
            /\ UNCHANGED sseInDropped
       ELSE /\ sseInClosed
            /\ ssePc' = "done"
            /\ sseInDropped' = TRUE
            /\ UNCHANGED <<sseCur, sseIn>>
    /\ UNCHANGED <<sseSource, sseInClosed, sseOut, sseOutDropped, sseDelivered,
                   sseFailedSends>>

KeepEncoding == "recv"

\* where the encoder goes when tx.send(result) fails: `break`, which ends the
\* loop and the task
AfterFailedSend == "done"

SsePushFront(q, f) == <<f>> \o q

\* tx.send(result) on the output channel whose receiver is alive
SsePush(q, f) == Append(q, f)

\* tx.send(result).await: the frame is queued, or the send fails because the
\* receiver is gone, and the loop breaks
SseSend ==
    /\ sseFrame
    /\ ssePc = "send"
    /\ IF sseOutDropped
       THEN /\ ssePc' = AfterFailedSend
            /\ sseInDropped' = (AfterFailedSend = "done")
            /\ sseIn' = IF AfterFailedSend = "done" THEN <<>> ELSE sseIn
            /\ sseFailedSends' = sseFailedSends + 1
            /\ UNCHANGED sseOut
       ELSE /\ Len(sseOut) < SseChannelCapacity
            /\ sseOut' = SsePush(sseOut, sseCur)
            /\ ssePc' = "recv"
            /\ UNCHANGED <<sseIn, sseInDropped, sseFailedSends>>
    /\ sseCur' = NoFrame
    /\ UNCHANGED <<sseSource, sseInClosed, sseOutDropped, sseDelivered>>

\* the behaviours of the consumer that are drawn: for a short input it takes
\* a frame or drops its receiver at any point; for the long input it is a slow
\* consumer, which stays and takes a frame only when the encoder cannot add
\* one: from a full channel, or once the encoder has ended
ShortInput ==
    Len(sseSource) + Len(sseIn) + (IF ssePc = "send" THEN 1 ELSE 0)
        + Len(sseOut) + Len(sseDelivered) < MaxBacklog

\* the consumer of the output channel receives a frame
SseConsume ==
    /\ sseFrame
    /\ ssePc # "off"
    /\ ~sseOutDropped
    /\ sseOut # <<>>
    /\ ShortInput \/ Len(sseOut) = SseChannelCapacity \/ ssePc = "done"
    /\ sseDelivered' = Append(sseDelivered, Head(sseOut))
    /\ sseOut' = Tail(sseOut)
    /\ UNCHANGED <<sseSource, sseIn, sseInClosed, sseInDropped, ssePc, sseCur,
                   sseOutDropped, sseFailedSends>>

\* the consumer drops the receiver of the output channel
SseDropReceiver ==
    /\ sseFrame
    /\ ssePc # "off"
    /\ ~sseOutDropped
    /\ ShortInput
    /\ sseOutDropped' = TRUE
    /\ sseOut' = <<>>
    /\ UNCHANGED <<sseSource, sseIn, sseInClosed, sseInDropped, ssePc, sseCur,
                   sseDelivered, sseFailedSends>>

(***************************************************************************)
(* ChatCompletionRequest and its JSON form.  A JSON object is a function   *)
(* from its member names to their values; a JSON value is written as its   *)
(* text ("true", "null", "5"), an array as a sequence.                     *)
(***************************************************************************)
\* the object with the members of f, and those of g that f has not
Merge(f, g) ==
    [k \in (DOMAIN f) \cup (DOMAIN g) |-> IF k \in DOMAIN f THEN f[k] ELSE g[k]]

NoMembers == [k \in {} |-> "null"]

\* the JSON objects given as messages: role alone, with content, with a null
\* content, and with a member the Message type does not declare
MessageDocs ==
    {[role |-> "user"],
     [role |-> "user", content |-> "hi"],
     [role |-> "user", content |-> "null"],
     [role |-> "tool", content |-> "hi", tool_call_id |-> "t"]}

MessageSeqs == UNION {[1 .. n -> MessageDocs] : n \in 1 .. MaxMessages}

\* the request bodies the model draws from: stream absent, true or false;
\* max_tokens absent, null or a number; an unknown member absent or present
ValidDocs ==
    {Merge([model |-> "gpt", messages |-> ms], Merge(st, Merge(mt, extra))) :
        ms \in MessageSeqs,
        st \in {NoMembers, [stream |-> "true"], [stream |-> "false"]},
        mt \in {NoMembers, [max_tokens |-> "null"], [max_tokens |-> "5"]},
        extra \in {NoMembers, [user |-> "u"], [user |-> "u", top_p |-> "1"]}}

\* bodies that are JSON objects but lack a required member
InvalidDocs == {[model |-> "gpt"], [messages |-> <<[content |-> "hi"]>>, model |-> "gpt"]}

Docs == ValidDocs \cup InvalidDocs

\* the members of a request the struct declares by name
KnownFields == {"messages", "model", "stream", "max_tokens"}

\* Option<T> of a member: None when it is absent or null
OptionOf(obj, k) ==
    IF k \in DOMAIN obj /\ obj[k] # "null" THEN <<obj[k]>> ELSE <<>>

\* Deserialize of Message: role is required, content optional, any other
\* member is ignored
ParseMessage(m) == [role |-> m["role"], content |-> OptionOf(m, "content")]

\* whether serde_json::from_slice::<ChatCompletionRequest> accepts the object
Deserializable(d) ==
    /\ {"messages", "model"} \subseteq DOMAIN d
    /\ \A i \in 1 .. Len(d["messages"]) : "role" \in DOMAIN d["messages"][i]

\* Deserialize of ChatCompletionRequest: stream defaults to false, the
\* members the struct does not declare are collected by the flattened map
ParseChatRequest(d) ==
    [messages |-> [i \in 1 .. Len(d["messages"]) |-> ParseMessage(d["messages"][i])],
     model |-> d["model"],
     stream |-> IF "stream" \in DOMAIN d THEN d["stream"] = "true" ELSE FALSE,
     max_tokens |-> OptionOf(d, "max_tokens"),
     additional_params |-> [k \in (DOMAIN d) \ KnownFields |-> d[k]]]

\* Serialize of Message: content is skipped when it is None
SerializeMessage(m) ==
    [k \in {"role"} \cup (IF m.content # <<>> THEN {"content"} ELSE {}) |->
        IF k = "role" THEN m.role ELSE m.content[1]]

SerializeKnownOnly(t) ==
    [k \in {"messages", "model", "stream"} |->
        CASE k = "messages" ->
                [i \in 1 .. Len(t.messages) |-> SerializeMessage(t.messages[i])]
          [] k = "model" -> t.model
          [] k = "stream" -> IF t.stream THEN "true" ELSE "false"]

\* Serialize of ChatCompletionRequest: messages, model and stream always,
\* max_tokens unless None, and the flattened map's members at the top level
SerializeChatRequest(t) ==
    [k \in {"messages", "model", "stream"}
            \cup (IF t.max_tokens # <<>> THEN {"max_tokens"} ELSE {})
            \cup DOMAIN t.additional_params |->
        CASE k = "messages" ->
                [i \in 1 .. Len(t.messages) |-> SerializeMessage(t.messages[i])]
          [] k = "model" -> t.model
          [] k = "stream" -> IF t.stream THEN "true" ELSE "false"
          [] k = "max_tokens" -> t.max_tokens[1]
          [] OTHER -> t.additional_params[k]]

NoParsed ==
    [messages |-> <<>>, model |-> "", stream |-> FALSE, max_tokens |-> <<>>,
     additional_params |-> NoMembers]

\* the route configuration create_openai_pipeline hands to the parser of the
\* pipeline it builds for a route: none, its `route` parameter is not used
ParserRouteConfig(allow_streaming) == <<>>

\* OpenAIRequestParser::parse: streaming is allowed unless a route
\* configuration says otherwise, and the request streams when it was asked to
\* and is allowed to
StreamAllowed(route_config) ==
    IF route_config = <<>> THEN TRUE ELSE route_config[1]
ShouldStream(stream_requested, route_config) ==
    stream_requested /\ StreamAllowed(route_config)

CodecOff ==
    /\ codecPc = "off" /\ doc = NoMembers /\ parsed = NoParsed
    /\ reserialized = NoMembers /\ routeAllow = TRUE /\ mode = "none"

\* a request body that is a JSON object, handed to the parser
InitCodec ==
    /\ codecPc = "parse" /\ doc \in Docs /\ parsed = NoParsed
    /\ reserialized = NoMembers /\ routeAllow \in BOOLEAN /\ mode = "none"

\* OpenAIRequestParser::parse
CodecParse ==
    /\ codecFrame
    /\ codecPc = "parse"
    /\ IF Deserializable(doc)
       THEN /\ parsed' =
                  [ParseChatRequest(doc) EXCEPT
                      !.stream = ShouldStream(@, ParserRouteConfig(routeAllow))]
            /\ codecPc' = "serialize"
       ELSE codecPc' = "parse_error" /\ UNCHANGED parsed
    /\ UNCHANGED <<doc, reserialized, routeAllow, mode>>

\* send_request's `.json(&request)` on the parsed request, and the reader
\* execute spawns for it
CodecSerialize ==
    /\ codecFrame
    /\ codecPc = "serialize"
    /\ reserialized' = SerializeChatRequest(parsed)
    /\ mode' = ReaderEntry(parsed.stream)
    /\ codecPc' = "done"
    /\ UNCHANGED <<doc, parsed, routeAllow>>

(***************************************************************************)
(* The token provider of a pipeline: create_chat_pipeline, StaticToken-    *)
(* Provider, EnvTokenProvider, and the token OpenAIClient sends            *)
(***************************************************************************)
\* the name the backend's token_env gives, and the values the variable of
\* that name may have in the process environment
TokenEnvName == "OPENAI_API_KEY"
EnvValues == {"unset", "k1", "k2"}

\* StaticTokenProvider::new(token) and EnvTokenProvider::new(env_var)
StaticTokenProvider(token) == [kind |-> "static", text |-> token]
EnvTokenProvider(name) == [kind |-> "env", text |-> name]

\* create_chat_pipeline: the token provider it builds from token_env_var
CreateChatPipelineProvider(token_env_var) == StaticTokenProvider(token_env_var)

\* TokenProvider::get_token of the two providers: the static one returns the
\* string it was built with, the other reads the variable and fails with
\* ConfigError when it is unset
GetTokenOf(provider, env) ==
    IF provider.kind = "static" THEN [ok |-> TRUE, text |-> provider.text]
    ELSE IF env = "unset" THEN [ok |-> FALSE, text |-> "ConfigError"]
    ELSE [ok |-> TRUE, text |-> env]

NoToken == [bearer |-> "", env |-> "unset"]

TokenOff ==
    /\ tokPc = "off" /\ tokEnv = "unset"
    /\ tokProvider = StaticTokenProvider("")
    /\ tokReqs = 0 /\ tokCur = NoToken /\ tokSent = <<>> /\ tokResults = <<>>

\* a pipeline in some environment: the one create_openai_pipeline builds for
\* a route from the backend's token_env, or one whose OpenAIClient was given
\* an EnvTokenProvider
InitToken ==
    /\ tokPc = "idle" /\ tokEnv \in EnvValues
    /\ tokProvider \in {CreateChatPipelineProvider(TokenEnvName),
                        EnvTokenProvider(TokenEnvName)}
    /\ tokReqs = 0 /\ tokCur = NoToken /\ tokSent = <<>> /\ tokResults = <<>>

\* the environment of the process changes
SetEnv ==
    /\ tokenFrame
    /\ tokPc # "off"
    /\ \E v \in EnvValues \ {tokEnv} : tokEnv' = v
    /\ UNCHANGED <<tokPc, tokProvider, tokReqs, tokCur, tokSent, tokResults>>

\* a request reaches OpenAIClient::execute
TokenRequest ==
    /\ tokenFrame
    /\ tokPc = "idle"
    /\ tokReqs < MaxTokenRequests
    /\ tokReqs' = tokReqs + 1
    /\ tokPc' = "get_token"
    /\ UNCHANGED <<tokEnv, tokProvider, tokCur, tokSent, tokResults>>

\* token_provider.get_token().await.map_err(LLMError)?: the token, or the
\* provider's error wrapped in LLMError and returned
TokenGet ==
    /\ tokenFrame
    /\ tokPc = "get_token"
    /\ LET got == GetTokenOf(tokProvider, tokEnv)
       IN IF got.ok
          THEN /\ tokCur' = [bearer |-> got.text, env |-> tokEnv]
               /\ tokPc' = "post"
               /\ UNCHANGED tokResults
          ELSE /\ tokResults' = Append(tokResults, <<"LLMError", got.text>>)
               /\ tokPc' = "idle"
               /\ UNCHANGED tokCur
    /\ UNCHANGED <<tokEnv, tokProvider, tokReqs, tokSent>>

\* send_request: `.bearer_auth(token)`
TokenPost ==
    /\ tokenFrame
    /\ tokPc = "post"
    /\ tokSent' = Append(tokSent, tokCur)
    /\ tokPc' = "idle"
    /\ UNCHANGED <<tokEnv, tokProvider, tokReqs, tokCur, tokResults>>

(***************************************************************************)
(* ConversationStream::handle of the app crate: one event through the      *)
(* processors, each of which may change the event and push new events      *)
(***************************************************************************)
\* what a processor does in process(&mut evt, &mut queue): it pushes so many
\* events onto the queue and changes the event, or returns an error
ProcessorBehaviours == [pushes : 0 .. MaxPushed, ok : BOOLEAN]

\* the processor lists ConversationStream::new may be given
ConvChains == UNION {[1 .. n -> ProcessorBehaviours] : n \in 0 .. MaxChain}

\* the event handed to handle, and the j-th event processor p pushes
OriginalEvent == [origin |-> 0, nth |-> 0, marks |-> <<>>]
PushedEvent(p, j) == [origin |-> p, nth |-> j, marks |-> <<>>]
PushedBy(p, k) == [j \in 1 .. k |-> PushedEvent(p, j)]

\* VecDeque::pop_front: the event taken and the rest of the queue
PopFront(q) == Head(q)
DropFront(q) == Tail(q)

\* VecDeque::push_back
PushBack(q, e) == Append(q, e)

ConvOff ==
    /\ convPc = "off" /\ convProcs = <<>> /\ convIdx = 1
    /\ convQueue = <<>> /\ convSeen = <<>>

\* handle has made the queue and pushed the event
InitConv ==
    /\ convPc = "loop" /\ convProcs \in ConvChains /\ convIdx = 1
    /\ convQueue = PushBack(<<>>, OriginalEvent) /\ convSeen = <<>>

\* one iteration of `for processor in &self.processors`: the front event is
\* popped, processed with the rest of the queue as output queue, and pushed
\* back; an error of the processor returns from handle
ConvStep ==
    /\ convFrame
    /\ convPc = "loop"
    /\ convIdx <= Len(convProcs)
    /\ IF convQueue = <<>>
       THEN /\ convIdx' = convIdx + 1
            /\ UNCHANGED <<convPc, convQueue, convSeen>>
       ELSE LET evt == PopFront(convQueue)
                rest == DropFront(convQueue)
                proc == convProcs[convIdx]
            IN /\ convSeen' = Append(convSeen, <<convIdx, evt.origin, evt.nth>>)
               /\ IF proc.ok
                  THEN /\ convQueue' =
                            PushBack(rest \o PushedBy(convIdx, proc.pushes),
                                     [evt EXCEPT !.marks = Append(@, convIdx)])
                       /\ convIdx' = convIdx + 1
                       /\ UNCHANGED convPc
                  ELSE /\ convPc' = "failed"
                       /\ convQueue' = <<>>
                       /\ UNCHANGED convIdx
    /\ UNCHANGED convProcs

\* the loop has run out of processors: Ok(queue)
ConvReturn ==
    /\ convFrame
    /\ convPc = "loop"
    /\ convIdx > Len(convProcs)
    /\ convPc' = "done"
    /\ UNCHANGED <<convProcs, convIdx, convQueue, convSeen>>

(***************************************************************************)
(* The message-level ProcessorChain::execute of the core crate             *)
(***************************************************************************)
\* what process_messages of a processor does with the messages: it keeps
\* them, adds one, removes them all, or returns an error
MessageOps == {"keep", "add", "clear", "fail"}
McChains == UNION {[1 .. n -> MessageOps] : n \in 0 .. MaxChain}

ApplyOp(op, messages) ==
    CASE op = "keep" -> messages
      [] op = "add" -> Append(messages, "added")
      [] op = "clear" -> <<>>

\* the requests handed to execute: model, stream (an Option), user (an
\* Option) and the messages
McRequests ==
    [model : {"gpt"}, stream : {<<>>, <<TRUE>>}, user : {<<>>, <<"u">>},
     messages : {<<>>, <<"m1">>}]

NoMcRequest == [model |-> "", stream |-> <<>>, user |-> <<>>, messages |-> <<>>]
NoMcOut == [kind |-> "none", request |-> NoMcRequest]

OnlyMessages(req, messages) == [NoMcRequest EXCEPT !.messages = messages]

\* `request.messages = messages; Ok(request)`
WithMessages(req, messages) == [req EXCEPT !.messages = messages]

MchainOff ==
    /\ mcPc = "off" /\ mcProcs = <<>> /\ mcIdx = 1
    /\ mcRequest = NoMcRequest /\ mcMessages = <<>> /\ mcOut = NoMcOut

\* execute was called: `let mut messages = request.messages;`
InitMchain ==
    /\ mcPc = "loop" /\ mcProcs \in McChains /\ mcIdx = 1
    /\ mcRequest \in McRequests /\ mcMessages = mcRequest.messages
    /\ mcOut = NoMcOut

\* `messages = processor.process_messages(messages).await?;`
McStep ==
    /\ mchainFrame
    /\ mcPc = "loop"
    /\ mcIdx <= Len(mcProcs)
    /\ IF mcProcs[mcIdx] = "fail"
       THEN /\ mcPc' = "returned"
            /\ mcOut' = [kind |-> "Err", request |-> NoMcRequest]
            /\ UNCHANGED <<mcIdx, mcMessages>>
       ELSE /\ mcMessages' = ApplyOp(mcProcs[mcIdx], mcMessages)
            /\ mcIdx' = mcIdx + 1
            /\ UNCHANGED <<mcPc, mcOut>>
    /\ UNCHANGED <<mcProcs, mcRequest>>

\* the loop has run out of processors: the messages are put back into the
\* request and it is returned
McReturn ==
    /\ mchainFrame
    /\ mcPc = "loop"
    /\ mcIdx > Len(mcProcs)
    /\ mcOut' = [kind |-> "Ok", request |-> WithMessages(mcRequest, mcMessages)]
    /\ mcPc' = "returned"
    /\ UNCHANGED <<mcProcs, mcIdx, mcRequest, mcMessages>>

(***************************************************************************)
(* Specification                                                           *)
(***************************************************************************)
vars ==
    <<proxyVars, registryVars, sseVars, codecVars, tokenVars, convVars, mchainVars>>

\* the parts that are not under study in a behaviour
OthersOff == ConvOff /\ MchainOff

Init ==
    \/ InitProxy /\ RegistryOff /\ SseOff /\ CodecOff /\ TokenOff /\ OthersOff
    \/ ProxyIdle /\ InitRegistry /\ SseOff /\ CodecOff /\ TokenOff /\ OthersOff
    \/ ProxyIdle /\ RegistryOff /\ InitSse /\ CodecOff /\ TokenOff /\ OthersOff
    \/ ProxyIdle /\ RegistryOff /\ SseOff /\ InitCodec /\ TokenOff /\ OthersOff
    \/ ProxyIdle /\ RegistryOff /\ SseOff /\ CodecOff /\ InitToken /\ OthersOff
    \/ /\ ProxyIdle /\ RegistryOff /\ SseOff /\ CodecOff /\ TokenOff
       /\ InitConv /\ MchainOff
    \/ /\ ProxyIdle /\ RegistryOff /\ SseOff /\ CodecOff /\ TokenOff
       /\ ConvOff /\ InitMchain

Next ==
    \/ ParseRequest
    \/ InvokeProcessor
    \/ GetClient
    \/ GetToken
    \/ GetUrl
    \/ SendRequest
    \/ HandleResponse
    \/ ReaderNext
    \/ ReaderTransportError
    \/ ReaderLine
    \/ ReaderNonStream
    \/ EdgeRecv
    \/ EdgeEnd
    \/ ClientDisconnect
    \/ \E r \in Requests : Arrive(r)
    \/ \E r \in Requests : AcquireRead(r)
    \/ \E r \in Requests : LookUp(r)
    \/ \E r \in Requests : AcquireWrite(r)
    \/ \E r \in Requests : Store(r)
    \/ \E r \in Requests : ReadBody(r)
    \/ \E r \in Requests : Respond(r)
    \/ ForwarderSend
    \/ ForwarderClose
    \/ SseRecv
    \/ SseSend
    \/ SseConsume
    \/ SseDropReceiver
    \/ CodecParse
    \/ CodecSerialize
    \/ SetEnv
    \/ TokenRequest
    \/ TokenGet
    \/ TokenPost
    \/ ConvStep
    \/ ConvReturn
    \/ McStep
    \/ McReturn

Spec == Init /\ [][Next]_vars

(***************************************************************************)
(* Properties                                                              *)
(***************************************************************************)
Range(q) == {q[i] : i \in 1 .. Len(q)}

\* the upstream sent a `data: [DONE]` line and the reader decoded it
DoneDecoded == "done" \in Range(decoded)

\* the messages of q that stand for a decoded data line
LineMessages(q) == SelectSeq(q, LAMBDA m : m.tag > 0)

TagsIncrease(q) == \A i, j \in 1 .. Len(q) : i < j => q[i].tag < q[j].tag

\* C1: a streaming response whose upstream sent [DONE] and whose client kept
\* receiving ends downstream with a `data: [DONE]` frame as its terminator
C1_EndsWithTerminator ==
    (request.stream /\ edgePc = "ended" /\ DoneDecoded)
        => (delivered # <<>> /\ delivered[Len(delivered)].kind = "done")

\* C2: once the reader has decoded `data: [DONE]` it has sent exactly one Done
\* and has returned, and no message stands for a line decoded after the [DONE]
C2_DoneEndsStream ==
    (DoneDecoded /\ ~rxDropped) =>
        /\ Cardinality({k \in 1 .. Len(sentLog) : sentLog[k].kind = "done"}) = 1
        /\ readerPc = "done"
        /\ \A i \in 1 .. Len(decoded) : \A k \in 1 .. Len(sentLog) :
              decoded[i] = "done" => sentLog[k].tag <= i

\* C3: after a non-2xx answer execute has returned LLMError, no reader task
\* was spawned, and no message was sent, queued or delivered
C3_Non2xxNoFrame ==
    status \in {"non2xx_json", "non2xx_other"} =>
        /\ result = "LLMError"
        /\ pc = "returned"
        /\ readerPc = "idle"
        /\ edgePc = "idle"
        /\ sentLog = <<>> /\ chan = <<>> /\ delivered = <<>>

C3_Witness == status = "non2xx_json" /\ pc = "returned" /\ request.stream

\* C4: the frames of decoded data lines travel in the order of decoding: what
\* was delivered, followed by what is still queued, is in increasing order of
\* line, in the reader's channel and in the encoder's channels
C4_OrderPreserved ==
    /\ TagsIncrease(LineMessages(delivered \o chan))
    /\ TagsIncrease(sseDelivered \o sseOut
                      \o (IF ssePc = "send" THEN <<sseCur>> ELSE <<>>) \o sseIn)

C4_Witness ==
    /\ Len(LineMessages(delivered)) >= 2
    /\ LineMessages(chan) # <<>>

\* the frame kinds of the lines of an uncut body
UncutKinds(bytes) ==
    LET classes == [i \in 1 .. Len(Lines(bytes)) |-> ClassifyLine(Lines(bytes)[i])]
    IN SelectSeq(classes, LAMBDA c : c \in {"chunk", "bad"})

SentKinds ==
    [k \in 1 .. Len(sentLog) |-> IF sentLog[k].kind = "chunk" THEN "chunk" ELSE "bad"]

\* C5: however the body was cut into transport chunks, a reader that ran to
\* the end of the body with every send succeeding has sent the frames of the
\* uncut body, one per data line
C5_CutIndependent ==
    (request.stream /\ readerPc = "done" /\ failedSends = 0 /\ transportErrors = 0)
        => SentKinds = UncutKinds(fullBody)

\* the number of messages of kind k delivered downstream for decoded line i
DeliveredFor(i, k) ==
    Cardinality({n \in 1 .. Len(delivered) :
                    delivered[n].tag = i /\ delivered[n].kind = k})

\* C6: when a response with a malformed data line has been read to its end and
\* the client never went away, the malformed line was delivered as exactly one
\* error frame, and every valid line and the [DONE] were delivered too
C6_MalformedReported ==
    (/\ request.stream /\ "bad" \in Range(decoded)
     /\ readerPc = "done" /\ edgePc \in {"ended", "aborted"}
     /\ transportErrors = 0)
        => \A i \in 1 .. Len(decoded) :
              DeliveredFor(i, IF decoded[i] = "bad" THEN "error" ELSE decoded[i]) = 1

\* C7: on a body that raises no transport error, the reader makes at most one
\* failed send, and reads no transport chunk after a send has failed
C7_StopsAfterDrop ==
    transportErrors = 0 => (failedSends <= 1 /\ readsAfterFail = 0)

\* C8: the registry holds at most one pipeline per path_prefix
C8_OnePipelinePerPrefix ==
    \A e1, e2 \in registry : e1[1] = e2[1] => e1 = e2

\* two requests of one route both missed, both built a pipeline and both stored
C8_Witness ==
    \E r1, r2 \in Requests :
        /\ r1 # r2
        /\ rroute[r1] = rroute[r2]
        /\ rbuilt[r1] # 0 /\ rbuilt[r2] # 0
        /\ rpc[r1] \in {"read_body", "execute", "responded"}
        /\ rpc[r2] \in {"read_body", "execute", "responded"}

\* C9: all requests of one route are served by the same pipeline instance, and
\* only one pipeline is ever built for a route
C9_FirstWriterWins ==
    \A r1, r2 \in Requests :
        (rroute[r1] = rroute[r2] /\ rpipe[r1] # 0 /\ rpipe[r2] # 0)
            => rpipe[r1] = rpipe[r2]

\* C10: once a processor has returned an error (it was invoked and left no
\* mark on the request) it is the last one invoked, execute has returned
\* ProcessError, and nothing was sent upstream
C10_ProcessorErrorAborts ==
    Len(invoked) > Len(request.marks) =>
        /\ Len(invoked) = Len(request.marks) + 1
        /\ result = "ProcessError"
        /\ pc = "returned"
        /\ posts = 0 /\ status = "none"
        /\ readerPc = "idle" /\ edgePc = "idle"

C10_Witness ==
    /\ Len(chain) >= 2
    /\ invoked = <<1>>
    /\ result = "ProcessError"
    /\ pc = "returned"

\* C11: ProcessorChain::execute invokes the processors one at a time in
\* declaration order, each exactly once, each on the output of the one before
\* it (the first on the parsed request), and hands on the output of the last
ChainFinished ==
    \/ pc \in {"get_client", "get_token", "get_url", "send_request"}
    \/ pc = "returned" /\ result \in {"Ok", "LLMError"}

C11_ChainInOrder ==
    /\ invoked = SubSeq(chain, 1, Len(invoked))
    /\ request.marks = SubSeq(chain, 1, Len(request.marks))
    /\ Len(request.marks) <= Len(invoked)
    /\ ChainFinished => (invoked = chain /\ request.marks = chain)

C11_Witness ==
    /\ Len(chain) = 2
    /\ invoked = <<1, 2>>
    /\ request.marks = <<1, 2>>
    /\ pc = "get_client"

\* C12: a request causes at most one upstream POST; a failed upstream call
\* (send failure, non-2xx, transport error in the body) is surfaced, as the
\* error Pipeline::execute returns or as an error message of the stream, and
\* no second POST follows it
C12_AtMostOnePost ==
    /\ posts <= 1
    /\ Len(posted) = posts
    /\ status \in {"send_failed", "non2xx_json", "non2xx_other"} =>
           (posts = 1 /\ result = "LLMError" /\ pc = "returned")
    /\ transportErrors > 0 =>
           /\ posts = 1
           /\ \/ failedSends > 0
              \/ \E k \in 1 .. Len(sentLog) :
                    sentLog[k].kind = "error" /\ sentLog[k].cause = "transport"

C12_Witness ==
    /\ transportErrors = 1
    /\ posts = 1
    /\ readerPc = "done"
    /\ \E k \in 1 .. Len(sentLog) : sentLog[k].cause = "transport"

\* C13: a request whose setup failed (parse, processor, provider, send
\* failure or non-2xx answer) is answered with a non-200 status; 200 is
\* answered, and the body streamed, only after the setup succeeded
SetupFailed == result \in {"ParseError", "ProcessError", "LLMError"}

C14_ParseErrorIs400 ==
    http # 0 =>
        /\ result = "ParseError" => http = 400
        /\ result \in {"ProcessError", "LLMError"} => http = 500

\* C15: find_route gives the first route, in declaration order, whose
\* path_prefix is a prefix of the path, and none exactly when no path_prefix
\* is a prefix of it
Routed == {r \in Requests : rpc[r] \notin {"off", "idle"}}

Matches(path, i) == StartsWith(path, Routes[i].path_prefix)

C15_FirstMatchingRoute ==
    \A r \in Routed :
        /\ rroute[r] = 0 <=> (\A i \in 1 .. Len(Routes) : ~Matches(rpath[r], i))
        /\ rroute[r] # 0 =>
              /\ rroute[r] \in 1 .. Len(Routes)
              /\ Matches(rpath[r], rroute[r])
              /\ \A j \in 1 .. (rroute[r] - 1) : ~Matches(rpath[r], j)

C15_Witness ==
    \E r \in Routed :
        /\ rroute[r] = 1
        /\ Matches(rpath[r], 2)

\* C16: a request whose path matches no route is answered 404 with the body
\* `No route found for path: <path>`; it looks up and creates no pipeline,
\* and the registry holds only what routed requests stored
C16_NoRouteIs404 ==
    /\ \A r \in Routed :
          (\A i \in 1 .. Len(Routes) : ~Matches(rpath[r], i)) <=> rhttp[r] = 404
    /\ \A r \in Routed :
          rhttp[r] = 404 =>
              /\ rbody[r] = <<"No route found for path: ">> \o rpath[r]
              /\ rpc[r] = "responded"
              /\ rroute[r] = 0 /\ rbuilt[r] = 0 /\ rpipe[r] = 0
              /\ r \notin lockReaders /\ lockWriter # r
    /\ \A e \in registry :
          \E r \in Routed :
              /\ rhttp[r] # 404
              /\ rbuilt[r] = e[2]
              /\ Routes[rroute[r]].path_prefix = e[1]
    /\ nextPipeline = 1 + Cardinality({r \in Routed : rbuilt[r] # 0})

C16_Witness ==
    \E r1, r2 \in Routed :
        /\ rhttp[r1] = 404
        /\ rpath[r1] = <<"z">>
        /\ rpipe[r2] # 0
        /\ registry # {}

\* C17: the encoder turns Chunk(json) into `data: <json>\n\n`, Done into
\* `data: [DONE]\n\n` and Error(msg) into `event: error\ndata: {"error":"<msg>"}\n\n`
\* with msg written as a JSON string; a frame has no `id:` or `retry:` line and
\* is one event: its only blank line is the one that ends it
SseFrames ==
    sseDelivered \o sseOut \o (IF ssePc = "send" THEN <<sseCur>> ELSE <<>>)

DataDone == <<"d", "a", "t", "a", ":", " ", "[", "D", "O", "N", "E", "]", "LF", "LF">>

EventErrorData ==
    <<"e", "v", "e", "n", "t", ":", " ", "e", "r", "r", "o", "r", "LF",
      "d", "a", "t", "a", ":", " ", "{", "\"", "e", "r", "r", "o", "r", "\"", ":">>

BlankLines(b) == {i \in 1 .. (Len(b) - 1) : b[i] = "LF" /\ b[i + 1] = "LF"}

FieldNames(b) == {Head(l) : l \in {l \in Range(Lines(b)) : l # <<>>}}

C17_FrameBytes ==
    \A k \in 1 .. Len(SseFrames) :
        LET f == SseFrames[k]
        IN /\ f.of.kind = "chunk" =>
                f.bytes = <<"d", "a", "t", "a", ":", " ">> \o f.of.text \o <<"LF", "LF">>
           /\ f.of.kind \in {"done", "chunk_done"} => f.bytes = DataDone
           /\ (f.of.kind = "error" /\ f.of.text = <<"e">>) =>
                f.bytes = EventErrorData \o <<"\"", "e", "\"", "}", "LF", "LF">>
           /\ (f.of.kind = "error" /\ f.of.text = <<"e", "LF", "LF", "\"">>) =>
                f.bytes = EventErrorData
                            \o <<"\"", "e", "\\", "n", "\\", "n", "\\", "\"", "\"", "}",
                                 "LF", "LF">>
           /\ f.of.kind \in {"chunk", "done", "chunk_done", "error"}
           /\ BlankLines(f.bytes) = {Len(f.bytes) - 1}
           /\ FieldNames(f.bytes) \subseteq {"d", "e"}

C17_Witness ==
    /\ Len(sseDelivered) = 3
    /\ sseDelivered[1].of.kind = "chunk"
    /\ sseDelivered[2].of = [kind |-> "error", text |-> <<"e", LF, LF, QUOTE>>, tag |-> 2]
    /\ sseDelivered[3].of.kind = "done"

KeptMembers(obj, declared) ==
    {k \in (DOMAIN obj) \cap declared : obj[k] # "null"}

C19_EmptyChainIdentity ==
    (chain = <<>> /\ posts > 0) =>
        /\ invoked = <<>>
        /\ request = [stream |-> (body = "stream"), marks |-> <<>>]
        /\ posted = <<[stream |-> (body = "stream"), marks |-> <<>>]>>

C19_Witness ==
    /\ chain = <<>>
    /\ body = "stream"
    /\ posts = 1
    /\ status = "2xx"

\* C20: the stream Pipeline::execute returns is the client's own: what the
\* caller has received and what still waits in the channel are, together and
\* in order, exactly the messages the client sent; once the caller has
\* dropped the stream, what it received is a prefix of them
C20_StreamIsClientStream ==
    /\ ~rxDropped => delivered \o chan = sentLog
    /\ rxDropped =>
          /\ Len(delivered) <= Len(sentLog)
          /\ delivered = SubSeq(sentLog, 1, Len(delivered))
    /\ sentLog # <<>> => result = "Ok"

C20_Witness ==
    /\ result = "Ok"
    /\ edgePc = "ended"
    /\ Len(sentLog) = 2
    /\ delivered = sentLog

\* C21: the bearer token sent for a route is the value the variable named by
\* token_env had when the request asked for it, and a request made while the
\* variable is unset fails with ConfigError without a POST
C21_TokenFromEnv ==
    tokProvider = CreateChatPipelineProvider(TokenEnvName) =>
        /\ \A k \in 1 .. Len(tokSent) :
              /\ tokSent[k].env # "unset"
              /\ tokSent[k].bearer = tokSent[k].env
        /\ \A k \in 1 .. Len(tokResults) : tokResults[k][2] = "ConfigError"

\* C22: a successful pipeline.execute is answered 200 with Content-Type
\* text/event-stream and Cache-Control no-cache, streaming the channel; an
\* error response carries no frame
C22_EventStreamHeaders ==
    /\ http = 200 =>
          /\ httpHeaders.content_type = "text/event-stream"
          /\ httpHeaders.cache_control = "no-cache"
    /\ (result = "Ok" /\ http # 0) => (http = 200 /\ edgePc # "idle")
    /\ http \in {400, 500} => (delivered = <<>> /\ edgePc = "idle")

\* C23: no frame sent downstream has a raw newline inside its data value:
\* the newlines of a frame are the two that end it and, in an error frame,
\* the one after `event: error`
NewlinesAt(b) == {i \in 1 .. Len(b) : b[i] = LF}

C23_NoRawNewline ==
    /\ \A k \in 1 .. Len(SseFrames) :
          LET b == SseFrames[k].bytes
          IN NewlinesAt(b) =
                {Len(b) - 1, Len(b)}
                    \cup (IF SseFrames[k].of.kind = "error"
                          THEN {Len(EventErrorLine)} ELSE {})
    /\ request.stream =>
          \A k \in 1 .. Len(delivered) :
              NewlinesAt(delivered[k].bytes)
                  \subseteq {Len(delivered[k].bytes) - 1, Len(delivered[k].bytes)}

\* C24: after a transport error of the upstream body the reader sends one
\* Error and returns: it does not call stream.next() again and sends nothing
\* after that Error
C24_TransportErrorFatal ==
    transportErrors > 0 =>
        /\ transportErrors = 1
        /\ readsAfterError = 0
        /\ \A k \in 1 .. Len(sentLog) :
              sentLog[k].cause = "transport" => k = Len(sentLog)

\* C25: for a request with stream = false and a 2xx answer the reader reads
\* the whole body and sends one chunk holding its bytes, then ends; the body
\* is not parsed for lines or [DONE], nothing else is sent, and a failed read
\* of the body ends the reader with nothing sent
C25_NonStreamOneChunk ==
    (body = "nonstream" /\ result = "Ok") =>
        /\ readerPc \in {"nonstream", "done"}
        /\ decoded = <<>>
        /\ Len(sentLog) + failedSends <= 1
        /\ \A k \in 1 .. Len(sentLog) :
              sentLog[k].kind = "chunk" /\ sentLog[k].bytes = fullBody
        /\ readerPc = "nonstream" => (sentLog = <<>> /\ failedSends = 0)
        /\ edgePc = "ended" => delivered = sentLog

C25_Witness ==
    /\ body = "nonstream"
    /\ edgePc = "ended"
    /\ Len(delivered) = 1
    /\ delivered[1].bytes = BodyHappy

\* C26: for a data line that parses, what is sent downstream is that one
\* line's JSON (bare, after `data: `, or as the line with its line end), not
\* the transport chunk it came in and not a reduced form of it
LineForms(p) == {p, DataPrefix \o p, DataLine(p)}

C26_LinePayloadVerbatim ==
    request.stream =>
        \A k \in 1 .. Len(sentLog) :
            sentLog[k].kind = "chunk" =>
                \E p \in ValidPayloads : sentLog[k].bytes \in LineForms(p)

\* C27: Pipeline::execute runs parse, then the processor chain, then the LLM
\* client: a processor runs only after a successful parse, the client only
\* after the whole chain succeeded and on the chain's output, and a parse
\* error returns with no processor and no client call
InClient == pc \in {"get_client", "get_token", "get_url", "send_request"}

C27_StagesInOrder ==
    /\ invoked # <<>> => body \in {"stream", "nonstream"}
    /\ body = "malformed" =>
          /\ pc \in {"parse", "returned"}
          /\ result \in {"none", "ParseError"}
          /\ invoked = <<>> /\ posts = 0 /\ status = "none"
    /\ pc \in {"parse", "chain"} => (posts = 0 /\ status = "none")
    /\ (InClient \/ posts > 0) =>
          /\ body \in {"stream", "nonstream"}
          /\ invoked = chain
          /\ request.marks = chain
    /\ posts > 0 => posted[1] = [stream |-> (body = "stream"), marks |-> chain]

C27_Witness ==
    /\ Len(chain) = 2
    /\ posts = 1
    /\ posted[1].marks = <<1, 2>>
    /\ status = "2xx"

\* C28: the encoder makes one frame of each message it receives, in the
\* order received, and ends, closing its output, only when its input is
\* closed and drained: the frames, the queued messages and the messages yet
\* to be sent are, in this order, the whole input
SseTags(q) == [i \in 1 .. Len(q) |-> q[i].tag]

C29_DropPropagates ==
    /\ sseFailedSends <= 1
    /\ sseFailedSends = 1 =>
          (sseOutDropped /\ ssePc = "done" /\ sseInDropped)
    /\ sseInDropped => (ssePc = "done" /\ sseIn = <<>>)
    /\ (sseOutDropped /\ ssePc = "send") => ENABLED SseSend
    /\ (sseInDropped /\ sseSource # <<>> /\ ~sseInClosed) => ENABLED ForwarderSend
    /\ (sseInClosed /\ sseSource # <<>>) => sseInDropped

C29_Witness ==
    /\ sseFailedSends = 1
    /\ sseDelivered # <<>>
    /\ sseInClosed
    /\ sseSource # <<>>

\* C30: no channel ever holds more than 100 messages; a producer at a send on
\* a full channel whose receiver is alive takes no step, so it reads no
\* further input; and while the receiver is alive every message sent is
\* delivered or still queued
C30_ChannelsBounded ==
    /\ Len(chan) <= ChannelCapacity
    /\ Len(sseIn) <= ChannelCapacity
    /\ Len(sseOut) <= SseChannelCapacity
    /\ ~rxDropped => delivered \o chan = sentLog
    /\ ~sseOutDropped =>
          LET out == SseTags(sseDelivered) \o SseTags(sseOut)
          IN \A k \in 1 .. Len(out) : out[k] = k
    /\ (Len(chan) = ChannelCapacity /\ ~rxDropped /\ readerPc = "lines"
            /\ ClassifyLine(Head(curLines)) \in {"chunk", "bad"}) =>
          (~ENABLED ReaderLine /\ ~ENABLED ReaderNext)
    /\ (Len(sseOut) = SseChannelCapacity /\ ~sseOutDropped /\ ssePc = "send") =>
          (~ENABLED SseSend /\ ~ENABLED SseRecv)
    /\ (Len(sseIn) = ChannelCapacity /\ ~sseInDropped /\ sseSource # <<>>) =>
          ~ENABLED ForwarderSend

C30_Witness ==
    /\ Len(chan) = ChannelCapacity
    /\ ~rxDropped
    /\ edgePc = "streaming"
    /\ readerPc = "lines"
    /\ upstream = <<>>

\* C31: a reader task exists only for the accepted request and is spawned
\* once; the consumer sees end-of-stream only after the reader has returned
\* and every message it sent has been received; and a consumer that keeps
\* receiving can always take the next message, or the end-of-stream once the
\* reader has returned, while a reader in the middle of a chunk has a line to
\* go on with and one at the end of the body can return
C31_ChannelClosesOnReturn ==
    /\ readerPc # "idle" => (posts = 1 /\ result = "Ok")
    /\ result = "Ok" => readerPc # "idle"
    /\ readerPc = "idle" => (sentLog = <<>> /\ decoded = <<>> /\ failedSends = 0)
    /\ edgePc = "ended" =>
          (readerPc = "done" /\ chan = <<>> /\ delivered = sentLog)
    /\ (edgePc = "streaming" /\ chan # <<>>) => ENABLED EdgeRecv
    /\ (edgePc = "streaming" /\ chan = <<>> /\ readerPc = "done") => ENABLED EdgeEnd
    /\ readerPc = "lines" => curLines # <<>>
    /\ (readerPc = "next" /\ upstream = <<>>) => ENABLED ReaderNext

C31_Witness ==
    /\ edgePc = "ended"
    /\ readerPc = "done"
    /\ Len(delivered) = 2
    /\ request.stream

\* C32: the three provider calls precede the POST; a failed provider call
\* returns LLMError from execute at once, with no POST sent and no reader
\* spawned
C32_ProviderFailureNoPost ==
    /\ pc \in {"get_client", "get_token", "get_url"} =>
          (posts = 0 /\ status = "none" /\ result = "none" /\ readerPc = "idle")
    /\ pc = "send_request" => (posts = 0 /\ result = "none")
    /\ result = "LLMError" => pc = "returned"
    /\ (result = "LLMError" /\ status = "none") =>
          (posts = 0 /\ posted = <<>> /\ readerPc = "idle" /\ sentLog = <<>>)

C32_Witness ==
    /\ result = "LLMError"
    /\ status = "none"
    /\ Len(invoked) = 2
    /\ http = 500

\* C33: the stream flag of the request sent upstream, and the mode of the
\* reader, is (stream requested and the route allows streaming); a body
\* without `stream` counts as not requested, and the request is processed
\* either way
StreamRequested(d) == "stream" \in DOMAIN d /\ d["stream"] = "true"

C33_StreamingForcedOff ==
    /\ codecPc = "parse_error" => ~Deserializable(doc)
    /\ codecPc = "done" =>
          LET streams == StreamRequested(doc) /\ routeAllow
          IN /\ reserialized["stream"] = (IF streams THEN "true" ELSE "false")
             /\ mode = (IF streams THEN "next" ELSE "nonstream")

\* C34: the reader acts on a line exactly when it is a data field, with or
\* without a space after the colon: a line of any other field, a comment or a
\* blank line is skipped, a data line with a value is not, and the messages
\* sent are one for each data line acted on
IsDataField(line) == StartsWith(line, <<"d", "a", "t", "a", ":">>)
FieldValue(line) == Trim(SubSeq(line, 6, Len(line)))

C34_DataLinesOnly ==
    /\ (readerPc = "lines" /\ curLines # <<>>) =>
          LET line == Head(curLines)
          IN /\ ~IsDataField(line) => ClassifyLine(line) = "skip"
             /\ (IsDataField(line) /\ FieldValue(line) # <<>>) =>
                    ClassifyLine(line) # "skip"
    /\ request.stream =>
          Len(sentLog) + failedSends =
             Cardinality({k \in 1 .. Len(decoded) : decoded[k] \in {"chunk", "bad"}})
                + transportErrors

\* C35: an entry of the registry is added only for the route of a request
\* that matched it, and an entry, once there, stays as it is: no step removes
\* it or puts another pipeline under its path_prefix
C35_CreateOnce ==
    [][/\ \A e \in registry : e \in registry'
       /\ \A e \in registry' \ registry :
             \E r \in Requests :
                rroute[r] # 0 /\ Routes[rroute[r]].path_prefix = e[1]]_vars

\* C36: a request whose route names a backend that is not configured, or one
\* of an unsupported provider, builds and stores no pipeline, never reaches
\* the reading of its body or the execution, and is answered 500 with the
\* pipeline error message; the registry holds no entry for its route
Unsupported(route) ==
    \/ route.target_llm \notin DOMAIN LlmProvider
    \/ LlmProvider[route.target_llm] # "openai"

C36_UnknownBackendIs500 ==
    \A r \in Requests :
        (rroute[r] # 0 /\ Unsupported(Routes[rroute[r]])) =>
            /\ rpc[r] \in {"read_lock", "read_get", "responded"}
            /\ rbuilt[r] = 0 /\ rpipe[r] = 0
            /\ RegistryGet(registry, Routes[rroute[r]].path_prefix) = 0
            /\ rpc[r] = "responded" =>
                  (rhttp[r] = 500 /\ rbody[r] = PipelineErrorBody)
            /\ rpc[r] # "responded" => rhttp[r] = 0

C36_Witness ==
    \E r1, r2 \in Requests :
        /\ rroute[r1] # 0 /\ Routes[rroute[r1]].target_llm = "nollm"
        /\ rpc[r1] = "responded" /\ rhttp[r1] = 500
        /\ rroute[r2] # 0 /\ Routes[rroute[r2]].target_llm = "claude"
        /\ rpc[r2] = "responded" /\ rhttp[r2] = 500
        /\ registry = {}

\* C37: when handle returns, every processor has processed the original
\* event, in chain order, and the queue holds the original event as changed
\* by all processors together with every pushed event
EventsOf(q) == {<<q[i].origin, q[i].nth>> : i \in 1 .. Len(q)}

C37_AllProcessOriginal ==
    convPc = "done" =>
        /\ Len(convSeen) = Len(convProcs)
        /\ \A p \in 1 .. Len(convProcs) : convSeen[p] = <<p, 0, 0>>
        /\ \E i \in 1 .. Len(convQueue) :
              /\ convQueue[i].origin = 0
              /\ convQueue[i].marks = [p \in 1 .. Len(convProcs) |-> p]
        /\ EventsOf(convQueue) =
              {<<0, 0>>} \cup
              {pj \in (1 .. Len(convProcs)) \X (1 .. MaxPushed) :
                  pj[2] <= convProcs[pj[1]].pushes}

\* C39: execute returns the request it was given with only the messages
\* changed, to what the processors made of them in chain order; when a
\* processor fails it returns the error and no request
RECURSIVE ApplyAll(_, _, _)
ApplyAll(procs, i, messages) ==
    IF i > Len(procs) THEN messages
    ELSE ApplyAll(procs, i + 1, ApplyOp(procs[i], messages))

C39_OnlyMessagesChange ==
    mcPc = "returned" =>
        IF \E i \in 1 .. Len(mcProcs) : mcProcs[i] = "fail"
        THEN mcOut = [kind |-> "Err", request |-> NoMcRequest]
        ELSE /\ mcOut.kind = "Ok"
             /\ mcOut.request.model = mcRequest.model
             /\ mcOut.request.stream = mcRequest.stream
             /\ mcOut.request.user = mcRequest.user
             /\ mcOut.request.messages = ApplyAll(mcProcs, 1, mcRequest.messages)

C39_Witness ==
    /\ mcPc = "returned"
    /\ mcOut.kind = "Ok"
    /\ mcProcs = <<"add", "add">>
    /\ mcRequest.stream = <<TRUE>>
    /\ mcRequest.user = <<"u">>
    /\ mcOut.request.messages = <<"m1", "added", "added">>

\* C38: a request waiting for or holding the write lock does not hold the
\* read lock; a holder of the lock can always take its next step and release
\* it, and a request that waits for the lock waits for such a holder only, so
\* no state with a pending request is stuck
InGetPipeline(r) == rpc[r] \in {"read_lock", "read_get", "write_lock", "insert"}

C38_NoLockUpgrade ==
    /\ \A r \in Requests :
          /\ rpc[r] \in {"write_lock", "insert"} => r \notin lockReaders
          /\ r \in lockReaders <=> rpc[r] = "read_get"
          /\ lockWriter = r <=> rpc[r] = "insert"
          /\ rpc[r] = "read_get" => ENABLED LookUp(r)
          /\ rpc[r] = "insert" => ENABLED Store(r)
          /\ rpc[r] = "read_lock" => (ENABLED AcquireRead(r) \/ lockWriter # 0)
          /\ rpc[r] = "write_lock" =>
                (ENABLED AcquireWrite(r) \/ lockWriter # 0 \/ lockReaders # {})
    /\ lockWriter # 0 => lockReaders = {}
    /\ (\E r \in Requests : InGetPipeline(r)) =>
          \E r \in Requests :
             \/ ENABLED AcquireRead(r) \/ ENABLED LookUp(r)
             \/ ENABLED AcquireWrite(r) \/ ENABLED Store(r)

C38_Witness ==
    \E r1, r2 \in Requests :
        /\ rpc[r1] = "insert"
        /\ rpc[r2] = "write_lock"
        /\ rroute[r1] = rroute[r2]

\* C40: every pipeline is, after any executions, the value Pipeline::new
\* made: same parser, chain, client and trace id; the trace id a request logs
\* is the one its pipeline was built with, so the requests served by one
\* pipeline log the same trace id, and two pipelines never share one
C40_PipelineUnchanged ==
    /\ \A id \in 1 .. Len(pipelines) : pipelines[id] = CreateOpenaiPipeline(id)
    /\ \A r \in Requests :
          rtrace[r] # 0 => (rpipe[r] # 0 /\ rtrace[r] = CreateOpenaiPipeline(rpipe[r]).trace_id)
    /\ \A r1, r2 \in Requests :
          (rtrace[r1] # 0 /\ rtrace[r2] # 0) =>
             (rpipe[r1] = rpipe[r2] <=> rtrace[r1] = rtrace[r2])

C40_Witness ==
    \E r1, r2 \in Requests :
        /\ r1 # r2
        /\ rpipe[r1] = rpipe[r2]
        /\ rtrace[r1] # 0 /\ rtrace[r2] # 0
        /\ rbuilt[r1] # 0 /\ rbuilt[r2] = 0

====
